---- MODULE Spec2Model ----
(***************************************************************************)
(* A model of the nexusUI manager (src/lib/core/manager.js): the widget    *)
(* registry (add / transform), the broadcasts (colorize / setProp) and the *)
(* animation pulse (startPulse / stopPulse / pulse / addAni / removeAni).  *)
(*                                                                         *)
(* JavaScript values are modelled by strings.  A JavaScript string is the  *)
(* TLA+ string itself; the non-string values the model needs are written   *)
(* as their literal text ("true", "false", "0", "14") and the two absent   *)
(* values are Undefined and Null.  Truthy is JavaScript's ToBoolean.       *)
(***************************************************************************)
EXTENDS Integers, Sequences, FiniteSets, TLC

VARIABLES
    widgets,       \* this.widgets: identifier -> widget
    elemTypeArr,   \* this.elemTypeArr: the type ledger
    globalWidgets, \* this.globalWidgets
    window,        \* the page-global namespace: identifier -> uid of the widget bound there
    colors,        \* manager.prototype.colors: aspect -> colour
    nxProps,       \* the manager's own properties written by setProp
    aniItems,      \* this.aniItems: the animation callbacks
    pulseInt,      \* this.pulseInt: the handle startPulse stored last (0: undefined)
    timers,        \* the interval timers of the page that are live
    nextHandle,    \* the handle the next setInterval returns
    calls,         \* history: one record per transform call, in call order
    lastOp,        \* history: the last call made on the manager, with what it returned
    drawn,         \* history: identifier -> number of draw() calls the last call made on it
    invoked,       \* history: the callbacks the last pulse invoked, in order
    stopped        \* history: stopPulse has returned and startPulse was not called since

vars == <<widgets, elemTypeArr, globalWidgets, window, colors, nxProps, aniItems,
          pulseInt, timers, nextHandle, calls, lastOp, drawn, invoked, stopped>>

registryVars  == <<widgets, elemTypeArr, window, calls>>
broadcastVars == <<colors, nxProps>>
pulseVars     == <<aniItems, pulseInt, timers, nextHandle, invoked, stopped>>

----------------------------------------------------------------------------
(* Bounds of the model *)

MaxCalls  == 3   \* transform calls in a run
MaxAni    == 3   \* callbacks pushed onto aniItems in a run
MaxTimers == 2   \* setInterval calls in a run

----------------------------------------------------------------------------
(* JavaScript values *)

Undefined == "undefined"
Null      == "null"

Falsy == {"", "0", "false", Undefined, Null}

Truthy(v) == v \notin Falsy

(* The widget catalog, require('../widgets'): the types that have a constructor. *)
Catalog == {"dial", "toggle"}

(* Type names a caller may ask for: the catalog and one that is not in it. *)
TypeNames == Catalog \cup {"bogus"}

(* Identifiers a page gives its canvases; "" is a canvas without an id. *)
SurfaceIds == {"", "mainDial", "dial2"}

Aspects   == {"accent", "border"}
ColorVals == {"#000000", "#112233"}

PropNames == {"showLabels", "fontSize"}
PropVals  == {"true", "false", "0", ""}

(* The animation callbacks widgets register, and what each does when invoked:
   f only draws, g removes itself, h removes f. *)
Callbacks == {"f", "g", "h"}

Removes(cb) == CASE cb = "g" -> "g" [] cb = "h" -> "f" [] OTHER -> Undefined

NoOp == [op |-> "none", a |-> Undefined, b |-> Undefined, ret |-> Undefined]

Call(op, a, b, ret) == [op |-> op, a |-> a, b |-> b, ret |-> ret]

NoDraws == [k \in DOMAIN widgets |-> 0]

----------------------------------------------------------------------------
(* The registry: add and transform *)

RECURSIVE CountOf(_, _)
CountOf(arr, t) ==
    IF arr = <<>> THEN 0
    ELSE (IF Head(arr) = t THEN 1 ELSE 0) + CountOf(Tail(arr), t)

(* for (var key in nx.widgets) if (nx.widgets[key].canvasID == canvas.id) return *)
AlreadyRegisteredNever(cid) == FALSE

AlreadyRegistered(cid) == \E key \in DOMAIN widgets : widgets[key].canvasID = cid

(* if (type) nxType = type; else nxType = canvas.getAttribute("nx") *)
ResolveType(nxAttr, type) == IF Truthy(type) THEN type ELSE nxAttr

(* this.elemTypeArr.push(nxType), whatever canvas.id is *)
PushTypeUnnamedOnly(arr, nxType, cid) == IF Truthy(cid) THEN arr ELSE Append(arr, nxType)

PushType(arr, nxType, cid) == Append(arr, nxType)

(* var idNum = elemCount + 1; canvas.id = nxType + idNum *)
AutoIdZeroBased(nxType, elemCount) == nxType \o ToString(elemCount)

AutoId(nxType, elemCount) == nxType \o ToString(elemCount + 1)

(* if (!canvas.id) canvas.id = AutoId; the identifier the canvas has afterwards *)
AssignId(cid, nxType, elemCount) == IF ~Truthy(cid) THEN AutoId(nxType, elemCount) ELSE cid

(* new (require('../widgets')[nxType])(canvas.id): the widget the constructor
   returns.  It keeps the identifier it was given and takes copies of the shared
   colours and settings. *)
NewWidget(nxType, id, uid) ==
    [canvasID |-> id, type |-> nxType, uid |-> uid, colors |-> colors, props |-> nxProps]

(* try { newObj = new ...(canvas.id) } catch (err) { console.log(nxType) }:
   newObj is set when the type is in the catalog and the constructor returns. *)
Constructed(nxType, ok) == nxType \in Catalog /\ ok

(* this.widgets[newObj.canvasID] = newObj.  Reading newObj.canvasID of an
   undefined newObj throws, and nothing is stored. *)
RegisterAlways(ws, made, newObj) == (newObj.canvasID :> newObj) @@ ws

Register(ws, made, newObj) == IF made THEN (newObj.canvasID :> newObj) @@ ws ELSE ws

(* if (this.globalWidgets) window[newObj.canvasID] = this.widgets[newObj.canvasID] *)
Expose(win, made, newObj) ==
    IF made /\ globalWidgets THEN (newObj.canvasID :> newObj.uid) @@ win ELSE win

(* manager.prototype.transform(canvas, type): cid is canvas.id, nxAttr the
   canvas's nx attribute, ok whether the constructor returns. *)
transform(cid, nxAttr, type, ok) ==
    LET nxType    == ResolveType(nxAttr, type)
        elemCount == CountOf(elemTypeArr, nxType)
        id        == AssignId(cid, nxType, elemCount)
        uid       == Len(calls) + 1
        made      == Constructed(nxType, ok)
        newObj    == NewWidget(nxType, id, uid)
    IN  /\ Len(calls) < MaxCalls
        /\ IF AlreadyRegistered(cid) \/ ~Truthy(nxType)
           THEN /\ UNCHANGED <<widgets, elemTypeArr, window>>
                /\ calls' = Append(calls, [surface |-> cid, type |-> "", passed |-> FALSE,
                                           id |-> cid, result |-> "nothing", uid |-> uid])
                /\ lastOp' = Call("transform", cid, Undefined, Undefined)
           ELSE /\ elemTypeArr' = PushType(elemTypeArr, nxType, cid)
                /\ widgets' = Register(widgets, made, newObj)
                /\ window' = Expose(window, made, newObj)
                /\ calls' = Append(calls, [surface |-> cid, type |-> nxType, passed |-> TRUE,
                                           id |-> id,
                                           result |-> IF made THEN "created" ELSE "threw",
                                           uid |-> uid])
                /\ lastOp' = Call("transform", cid, nxType, IF made THEN id ELSE "TypeError")
        /\ drawn' = [k \in DOMAIN widgets' |-> 0]
        /\ UNCHANGED <<globalWidgets, broadcastVars, pulseVars>>

(* A page calling nx.transform on a canvas of its markup. *)
Transform ==
    \E cid \in SurfaceIds, nxAttr \in {"dial", "bogus", Null}, type \in {Undefined, "toggle"},
       ok \in BOOLEAN :
        transform(cid, nxAttr, type, ok)

(* manager.prototype.add(type, args): a new canvas with the nx attribute type
   and, when args.name is truthy, the id args.name, handed to transform. *)
add(type, name, ok) ==
    IF Truthy(type)
    THEN transform(IF Truthy(name) THEN name ELSE "", type, Undefined, ok)
    ELSE /\ lastOp' = Call("add", type, Undefined, Undefined)
         /\ drawn' = NoDraws
         /\ UNCHANGED <<globalWidgets, registryVars, broadcastVars, pulseVars>>

Add ==
    \E type \in {"dial", "bogus", ""}, name \in {Undefined, "mainDial", "dial2"}, ok \in BOOLEAN :
        add(type, name, ok)

(* nx.globalWidgets = true / false, the documented way to switch the exposure *)
SetGlobalWidgets ==
    /\ globalWidgets' = ~globalWidgets
    /\ UNCHANGED <<registryVars, broadcastVars, pulseVars, lastOp, drawn>>

----------------------------------------------------------------------------
(* The broadcasts: colorize and setProp *)

(* colors[aspect] = newCol on a colour mapping *)
SetAspect(cols, aspect, newCol) == (aspect :> newCol) @@ cols

(* this.widgets[key].colors[aspect] = newCol *)
RecolorWidgetSkipped(w, aspect, newCol) == w

RecolorWidget(w, aspect, newCol) == [w EXCEPT !.colors = SetAspect(@, aspect, newCol)]

(* manager.prototype.colorize(aspect, newCol) *)
colorize(aspect, newCol) ==
    LET col == IF ~Truthy(newCol) THEN aspect ELSE newCol
        asp == IF ~Truthy(newCol) THEN "accent" ELSE aspect
    IN  /\ colors' = SetAspect(colors, asp, col)
        /\ widgets' = [key \in DOMAIN widgets |-> RecolorWidget(widgets[key], asp, col)]
        /\ drawn' = [key \in DOMAIN widgets |-> 1]
        /\ lastOp' = Call("colorize", aspect, newCol, Undefined)
        /\ UNCHANGED <<elemTypeArr, window, calls, globalWidgets, nxProps, pulseVars>>

(* nx.colorize("border", "#000000") and nx.colorize("#00ff00") *)
Colorize ==
    \/ \E aspect \in Aspects, newCol \in ColorVals : colorize(aspect, newCol)
    \/ \E newCol \in ColorVals : colorize(newCol, Undefined)

(* A widget's own colour mapping is its own: page code writing
   widget.colors[aspect] = col, which changes neither the shared mapping nor
   any other widget. *)
SetWidgetColor ==
    \E key \in DOMAIN widgets :
        /\ widgets[key].colors["fill"] # "#112233"
        /\ widgets' = [widgets EXCEPT ![key] = RecolorWidget(@, "fill", "#112233")]
        /\ lastOp' = Call("widget.colors", key, "fill", Undefined)
        /\ drawn' = NoDraws
        /\ UNCHANGED <<elemTypeArr, window, calls, globalWidgets, broadcastVars, pulseVars>>

(* manager.prototype.setProp(prop, val) *)
setProp(prop, val) ==
    /\ IF Truthy(prop) /\ Truthy(val)
       THEN /\ nxProps' = (prop :> val) @@ nxProps
            /\ widgets' = [key \in DOMAIN widgets |->
                              [widgets[key] EXCEPT !.props = (prop :> val) @@ @]]
            /\ drawn' = [key \in DOMAIN widgets |-> 1]
       ELSE /\ UNCHANGED <<nxProps, widgets>>
            /\ drawn' = NoDraws
    /\ lastOp' = Call("setProp", prop, val, Undefined)
    /\ UNCHANGED <<elemTypeArr, window, calls, globalWidgets, colors, pulseVars>>

SetProp == \E prop \in PropNames, val \in PropVals : setProp(prop, val)

(* nx.add("dial") and nx.add("dial", {name: "mainDial"}) with a constructor
   that returns: the widgets the broadcasts reach. *)
AddDial == \E name \in {Undefined, "mainDial"} : add("dial", name, TRUE)

----------------------------------------------------------------------------
(* The animation pulse *)

Max(a, b) == IF a > b THEN a ELSE b
Min(a, b) == IF a < b THEN a ELSE b

(* Array.prototype.indexOf: the 0-based index of the first element equal to
   fn, or -1 *)
IndexOf(items, fn) ==
    IF \E i \in 1..Len(items) : items[i] = fn
    THEN (CHOOSE i \in 1..Len(items) :
              items[i] = fn /\ \A j \in 1..(i - 1) : items[j] # fn) - 1
    ELSE -1

(* Array.prototype.splice(start) with no delete count: a negative start counts
   from the end, and every element from start to the end is removed. *)
Splice(items, start) ==
    LET from == IF start < 0 THEN Max(Len(items) + start, 0) ELSE Min(start, Len(items))
    IN  SubSeq(items, 1, from)

(* this.aniItems.splice(this.aniItems.indexOf(fn)) *)
removeAniItems(items, fn) == Splice(items, IndexOf(items, fn))

(* for (var i=0;i<this.aniItems.length;i++) this.aniItems[i](): the list and
   the log of invocations once the loop ends, from index i (0-based) on.  A
   callback that removes a callback does so through removeAni. *)
RECURSIVE pulseLoop(_, _, _)
pulseLoop(items, i, log) ==
    IF i >= Len(items) THEN [items |-> items, log |-> log]
    ELSE LET cb    == items[i + 1]
             after == IF Removes(cb) = Undefined THEN items
                      ELSE removeAniItems(items, Removes(cb))
         IN  pulseLoop(after, i + 1, Append(log, cb))

(* manager.prototype.pulse, run by a live interval timer: setInterval("nx.pulse()", 30) *)
Pulse ==
    /\ timers # {}
    /\ LET end == pulseLoop(aniItems, 0, <<>>)
       IN  /\ aniItems' = end.items
           /\ invoked' = end.log
    /\ lastOp' = Call("pulse", Undefined, Undefined, Undefined)
    /\ UNCHANGED <<registryVars, globalWidgets, broadcastVars, drawn,
                   pulseInt, timers, nextHandle, stopped>>

(* manager.prototype.startPulse: this.pulseInt = setInterval("nx.pulse()", 30) *)
StartPulse ==
    /\ nextHandle <= MaxTimers
    /\ timers' = timers \cup {nextHandle}
    /\ pulseInt' = nextHandle
    /\ nextHandle' = nextHandle + 1
    /\ stopped' = FALSE
    /\ lastOp' = Call("startPulse", Undefined, Undefined, Undefined)
    /\ UNCHANGED <<registryVars, globalWidgets, broadcastVars, drawn, aniItems, invoked>>

(* manager.prototype.stopPulse: clearInterval(this.pulseInt) *)
StopPulse ==
    /\ timers' = timers \ {pulseInt}
    /\ stopped' = TRUE
    /\ lastOp' = Call("stopPulse", Undefined, Undefined, Undefined)
    /\ UNCHANGED <<registryVars, globalWidgets, broadcastVars, drawn, aniItems, invoked,
                   pulseInt, nextHandle>>

(* manager.prototype.addAni(fn): an empty body *)
AddAni ==
    \E fn \in Callbacks :
        /\ lastOp' = Call("addAni", fn, Undefined, Undefined)
        /\ UNCHANGED <<registryVars, globalWidgets, broadcastVars, drawn, pulseVars>>

(* The widgets register their callbacks themselves: nx.aniItems.push(fn) *)
PushAni ==
    \E fn \in Callbacks :
        /\ Len(aniItems) < MaxAni
        /\ aniItems' = Append(aniItems, fn)
        /\ lastOp' = Call("aniItems.push", fn, Undefined, Undefined)
        /\ UNCHANGED <<registryVars, globalWidgets, broadcastVars, drawn,
                       pulseInt, timers, nextHandle, invoked, stopped>>

(* manager.prototype.removeAni(fn) *)
RemoveAni ==
    \E fn \in Callbacks :
        /\ aniItems' = removeAniItems(aniItems, fn)
        /\ lastOp' = Call("removeAni", fn, Undefined, Undefined)
        /\ UNCHANGED <<registryVars, globalWidgets, broadcastVars, drawn,
                       pulseInt, timers, nextHandle, invoked, stopped>>

----------------------------------------------------------------------------
Init ==
    /\ widgets = <<>>
    /\ elemTypeArr = <<>>
    /\ globalWidgets = TRUE
    /\ window = <<>>
    /\ colors = [a \in {"accent", "fill", "border", "black", "white"} |->
                    CASE a = "accent" -> "#ff5500"
                      [] a = "fill"   -> "#eee"
                      [] a = "border" -> "#bbb"
                      [] a = "black"  -> "#000"
                      [] a = "white"  -> "#FFF"]
    /\ nxProps = [p \in PropNames |-> IF p = "showLabels" THEN "false" ELSE "14"]
    /\ aniItems = <<>>
    /\ pulseInt = 0
    /\ timers = {}
    /\ nextHandle = 1
    /\ calls = <<>>
    /\ lastOp = NoOp
    /\ drawn = <<>>
    /\ invoked = <<>>
    /\ stopped = FALSE

NextRegistry == Transform \/ Add \/ SetGlobalWidgets

SpecRegistry == Init /\ [][NextRegistry]_vars

NextBroadcast == AddDial \/ Colorize \/ SetWidgetColor \/ SetProp

SpecBroadcast == Init /\ [][NextBroadcast]_vars

NextPulse == PushAni \/ AddAni \/ RemoveAni \/ StartPulse \/ StopPulse \/ Pulse

SpecPulse == Init /\ [][NextPulse]_vars

Next == NextRegistry \/ NextBroadcast \/ NextPulse

Spec == Init /\ [][Next]_vars

----------------------------------------------------------------------------
(* Properties of the registry, checked under SpecRegistry *)

CallIdx == 1..Len(calls)

(* The transform calls that passed the guard and resolved the type t. *)
PassedOfType(t) == {i \in CallIdx : calls[i].passed /\ calls[i].type = t}

Created == {i \in CallIdx : calls[i].result = "created"}

(* C1: when every transform of type T so far was on a surface without an
   identifier and constructed its widget, the k-th of them was given the
   identifier T followed by k: T1, T2, T3, ... in call order. *)
C1_SequentialIds ==
    \A t \in TypeNames :
        (\A i \in PassedOfType(t) : calls[i].surface = "" /\ calls[i].result = "created")
        => \A i \in PassedOfType(t) :
               /\ calls[i].id = t \o ToString(Cardinality({j \in PassedOfType(t) : j <= i}))
               /\ calls[i].id \in DOMAIN widgets

C1_Witness ==
    /\ Cardinality(PassedOfType("dial")) = 3
    /\ \A i \in PassedOfType("dial") : calls[i].surface = "" /\ calls[i].result = "created"

(* C2: no two created widgets share an identifier: a successful creation
   never takes the identifier of a widget created before. *)
C2_UniqueIds ==
    \A i, j \in Created : i # j => calls[i].id # calls[j].id

(* C3: a transform on a surface whose identifier is already registered
   returns nothing and leaves the registry, the global namespace and the type
   ledger as they were, with one widget for that identifier. *)
C3_SecondTransformNoOp ==
    [][(/\ Len(calls') = Len(calls) + 1
        /\ calls'[Len(calls')].surface \in DOMAIN widgets)
       => /\ lastOp'.ret = Undefined
          /\ widgets' = widgets
          /\ window' = window
          /\ elemTypeArr' = elemTypeArr
          /\ Cardinality({k \in DOMAIN widgets' :
                            widgets'[k].canvasID = calls'[Len(calls')].surface}) = 1]_vars

C3_Witness ==
    /\ calls # <<>>
    /\ ~calls[Len(calls)].passed
    /\ calls[Len(calls)].surface \in DOMAIN widgets
    /\ elemTypeArr # <<>>

(* C4: the ledger holds the type of every transform that passed the guard
   and resolved a type, named or not, in call order; the suffix of an unnamed
   surface of type T is 1 + the number of earlier such transforms of type T. *)
C4_LedgerCountsAll ==
    /\ Len(elemTypeArr) = Cardinality({i \in CallIdx : calls[i].passed})
    /\ \A i \in CallIdx :
        calls[i].passed =>
            LET earlier == {j \in PassedOfType(calls[i].type) : j < i}
            IN  /\ elemTypeArr[Cardinality({j \in CallIdx : calls[j].passed /\ j <= i})]
                     = calls[i].type
                /\ calls[i].surface = ""
                     => calls[i].id = calls[i].type \o ToString(1 + Cardinality(earlier))

(* dial, then a dial named "mainDial", then a dial: dial1, mainDial, dial3 *)
C4_Witness ==
    /\ Len(calls) = 3
    /\ \A i \in CallIdx : calls[i].type = "dial" /\ calls[i].result = "created"
    /\ calls[1].id = "dial1"
    /\ calls[2].surface = "mainDial" /\ calls[2].id = "mainDial"
    /\ calls[3].surface = "" /\ calls[3].id = "dial3"

(* C10: a transform whose construction fails adds nothing to widgets or to
   the global namespace and leaves every registered widget where it was; a
   transform that constructs its widget, also after failures, registers it. *)
C10_FailureIsLocal ==
    [][(/\ Len(calls') = Len(calls) + 1
        /\ calls'[Len(calls')].passed)
       => LET c == calls'[Len(calls')]
          IN  /\ c.result = "threw" => widgets' = widgets /\ window' = window
              /\ c.result = "created" =>
                    /\ c.id \in DOMAIN widgets' /\ widgets'[c.id].uid = c.uid
                    /\ globalWidgets => c.id \in DOMAIN window' /\ window'[c.id] = c.uid
                    /\ \A k \in DOMAIN widgets \ {c.id} :
                          k \in DOMAIN widgets' /\ widgets'[k] = widgets[k]]_vars

C10_Witness ==
    \E i, j, k \in CallIdx :
        /\ i < j /\ j < k
        /\ calls[i].result = "created" /\ calls[i].id \in DOMAIN widgets
        /\ widgets[calls[i].id].uid = i
        /\ calls[j].result = "threw"
        /\ calls[k].result = "created" /\ calls[k].id \in DOMAIN widgets
        /\ Cardinality(DOMAIN widgets) = 2 /\ Cardinality(DOMAIN window) = 2

----------------------------------------------------------------------------
(* Properties of the broadcasts, checked under SpecBroadcast *)

(* C5: colorize(aspect, color) with both arguments given: afterwards the
   shared colors[aspect] and every registered widget's colors[aspect] are
   color, draw was called once on each registered widget, and no other aspect
   of the shared mapping or of a widget's mapping, and nothing else of a
   widget, has changed. *)
C5_ColorizeFrame ==
    [][(lastOp'.op = "colorize" /\ Truthy(lastOp'.b))
       => LET aspect == lastOp'.a
              color  == lastOp'.b
          IN  /\ DOMAIN colors' = DOMAIN colors \cup {aspect}
              /\ colors'[aspect] = color
              /\ \A x \in DOMAIN colors \ {aspect} : colors'[x] = colors[x]
              /\ DOMAIN widgets' = DOMAIN widgets
              /\ DOMAIN drawn' = DOMAIN widgets
              /\ \A key \in DOMAIN widgets :
                    /\ widgets'[key].colors[aspect] = color
                    /\ drawn'[key] = 1
                    /\ DOMAIN widgets'[key].colors = DOMAIN widgets[key].colors \cup {aspect}
                    /\ \A x \in DOMAIN widgets[key].colors \ {aspect} :
                          widgets'[key].colors[x] = widgets[key].colors[x]
                    /\ widgets'[key].canvasID = widgets[key].canvasID
                    /\ widgets'[key].uid = widgets[key].uid
                    /\ widgets'[key].props = widgets[key].props]_vars

C5_Witness ==
    /\ lastOp.op = "colorize" /\ lastOp.a = "border" /\ lastOp.b = "#000000"
    /\ Cardinality(DOMAIN widgets) >= 2
    /\ colors["border"] = "#000000" /\ colors["accent"] = "#112233"
    /\ \A key \in DOMAIN widgets : widgets[key].colors["border"] = "#000000" /\ drawn[key] = 1
    /\ \E key \in DOMAIN widgets : widgets[key].colors["fill"] # colors["fill"]

(* C7: after setProp(name, value), whatever the value, the manager and every
   registered widget have name set to value and draw was called once on every
   registered widget. *)
C7_SetPropAnyValue ==
    lastOp.op = "setProp" =>
        /\ nxProps[lastOp.a] = lastOp.b
        /\ \A key \in DOMAIN widgets :
              widgets[key].props[lastOp.a] = lastOp.b /\ drawn[key] = 1

----------------------------------------------------------------------------
(* Properties of the animation pulse, checked under SpecPulse *)

(* items without its first occurrence of fn; items itself when fn is not in it *)
WithoutFirst(items, fn) ==
    IF \E i \in 1..Len(items) : items[i] = fn
    THEN LET i == CHOOSE i \in 1..Len(items) :
                      items[i] = fn /\ \A j \in 1..(i - 1) : items[j] # fn
         IN  SubSeq(items, 1, i - 1) \o SubSeq(items, i + 1, Len(items))
    ELSE items

(* C6: removeAni(fn) deletes the first occurrence of fn and nothing else, and
   leaves the list as it is when fn is not in it. *)
C6_RemoveFirstOnly ==
    [][lastOp'.op = "removeAni" => aniItems' = WithoutFirst(aniItems, lastOp'.a)]_vars

(* C8: a tick invokes every callback that is in the list when the tick starts
   exactly once, in list order, also when a callback calls removeAni. *)
C8_TickInvokesAll ==
    [][lastOp'.op = "pulse" => invoked' = aniItems]_vars

(* C9: once stopPulse has returned, no tick fires until startPulse is called. *)
C9_NoTickAfterStop ==
    [][stopped => lastOp'.op # "pulse"]_vars

====
